---- MODULE Spec2Model ----
(***************************************************************************)
(* Model of Scripts/GeMS_DMUtoDocx_AGP2.py: the translation of the         *)
(* DescriptionOfMapUnits table into a Word document, and of the update     *)
(* loop of gems-toolbox/GeMS_AttributeByKeyValues_AGP2.py.                 *)
(*                                                                         *)
(* Text is a sequence of one-character strings, so that offsets, slices    *)
(* and substring searches are computed as Python computes them.  Offsets   *)
(* are 0-based as in the source.  The Python value None is the one-element *)
(* sequence <<"None">>, whose element is no character.                     *)
(***************************************************************************)
EXTENDS Integers, Sequences, FiniteSets, TLC

VARIABLES
    useMapUnitForUnitLabl,  \* sys.argv[4] == 'true'
    isLMU,                  \* sys.argv[5] == 'true'
    document,               \* the paragraphs of the docx body, in order
    lastParaWasHeading,     \* module-level flag
    abbrv,                  \* module-level name, unbound until first assigned
    rows,                   \* the rows the cursor dmuRows has yielded so far
    pc,                     \* position of the script
    ptext,                  \* text handed to a text function on its own
    out,                    \* what that text function produced
    tpc,                    \* position of the text-function harness
    forceCalc,              \* AttributeByKeyValues: eval_bool(parameters[2])
    given,                  \* the attribute table as the tool found it
    table,                  \* the attribute table as stored
    cursor,                 \* how many rows the update cursor has yielded
    failed,                 \* the rows whose updateRow raised
    kpc                     \* position of AttributeByKeyValues

docxVars == <<useMapUnitForUnitLabl, isLMU, document, lastParaWasHeading, abbrv,
              rows, pc, ptext, out, tpc>>

kvVars == <<forceCalc, given, table, cursor, failed, kpc>>

vars == <<useMapUnitForUnitLabl, isLMU, document, lastParaWasHeading, abbrv,
          rows, pc, ptext, out, tpc, forceCalc, given, table, cursor, failed, kpc>>

-----------------------------------------------------------------------------
(* Bounds *)

MaxRows == 3

MaxTokens == 4

MaxTableRows == 2

-----------------------------------------------------------------------------
(* Python values and string primitives *)

None == <<"None">>

Unbound == <<"Unbound">>

Min(a, b) == IF a < b THEN a ELSE b

Max(a, b) == IF a > b THEN a ELSE b

\* s[a:b]
Slice(s, a, b) ==
    LET n  == Len(s)
        lo == IF a < 0 THEN Max(a + n, 0) ELSE Min(a, n)
        hi == IF b < 0 THEN Max(b + n, 0) ELSE Min(b, n)
    IN  IF lo >= hi THEN <<>> ELSE SubSeq(s, lo + 1, hi)

\* sub occurs in s at offset i
MatchAt(s, sub, i) ==
    /\ i >= 0
    /\ i + Len(sub) <= Len(s)
    /\ SubSeq(s, i + 1, i + Len(sub)) = sub

\* s.find(sub, from): the lowest offset >= from where sub occurs, or -1
Find(s, sub, from) ==
    LET hits == {i \in from..(Len(s) - Len(sub)) : MatchAt(s, sub, i)}
    IN  IF hits = {} THEN -1 ELSE CHOOSE i \in hits : \A j \in hits : i <= j

\* sub in s
Contains(s, sub) == Find(s, sub, 0) > -1

\* [m.start() for m in re.finditer(st, s)]: the markers hold no regular-expression
\* metacharacter, so the matches are the non-overlapping literal occurrences
RECURSIVE FindIterFrom(_, _, _)
FindIterFrom(st, s, from) ==
    LET i == Find(s, st, from)
    IN  IF i = -1 THEN <<>> ELSE <<i>> \o FindIterFrom(st, s, i + Len(st))

FindIter(st, s) == FindIterFrom(st, s, 0)

\* s.split(sep)
RECURSIVE Split(_, _)
Split(s, sep) ==
    LET i == Find(s, sep, 0)
    IN  IF i = -1 THEN <<s>>
        ELSE <<Slice(s, 0, i)>> \o Split(Slice(s, i + Len(sep), Len(s)), sep)

\* variant of s.replace(old, '') that stops after the first occurrence
Remove_FirstOnly(s, old) ==
    LET i == Find(s, old, 0)
    IN  IF i = -1 THEN s ELSE Slice(s, 0, i) \o Slice(s, i + Len(old), Len(s))

\* s.replace(old, '')
RECURSIVE Remove(_, _)
Remove(s, old) ==
    LET i == Find(s, old, 0)
    IN  IF i = -1 THEN s
        ELSE Slice(s, 0, i) \o Remove(Slice(s, i + Len(old), Len(s)), old)

\* the line boundaries of str.splitlines that the model's alphabet holds
LineBreaks == {"\n", "\r"}

\* s.splitlines(): "\r\n" is one boundary, and no empty last line is produced
RECURSIVE SplitLines(_)
SplitLines(s) ==
    LET hits == {i \in 1..Len(s) : s[i] \in LineBreaks}
    IN  IF s = <<>> THEN <<>>
        ELSE IF hits = {} THEN <<s>>
        ELSE LET i   == CHOOSE k \in hits : \A j \in hits : k <= j
                 end == IF s[i] = "\r" /\ i < Len(s) /\ s[i + 1] = "\n"
                        THEN i + 1 ELSE i
             IN  <<SubSeq(s, 1, i - 1)>> \o SplitLines(SubSeq(s, end + 1, Len(s)))

Whitespace == {" ", "\t", "\n", "\r"}

\* len(txt.split()) == 0
OnlyWhitespace(txt) == \A i \in 1..Len(txt) : txt[i] \in Whitespace

-----------------------------------------------------------------------------
(* The tag catalog, lines 45-59 *)

\* "\u2014": the element "--" stands for the one character U+2014
emDash == <<"--">>

Open(tag) == <<"<">> \o tag \o <<">">>

Close(tag) == <<"<", "/">> \o tag \o <<">">>

tags == << <<"b">>, <<"p">>, <<"i">>, <<"g">>, <<"u", "l">>,
           <<"s", "u", "p">>, <<"s", "u", "b">> >>

spanStart == <<"<", "s", "p", "a", "n", " ", "s", "t", "y", "l", "e", "=", "\"",
               "f", "o", "n", "t", "-", "f", "a", "m", "i", "l", "y", ":", " ",
               "F", "G", "D", "C", "G", "e", "o", "A", "g", "e", "\"", ">">>

spanEnd == Close(<<"s", "p", "a", "n">>)

startTags == [i \in 1..Len(tags) |-> Open(tags[i])] \o <<spanStart>>

endTags == [i \in 1..Len(tags) |-> Close(tags[i])] \o <<spanEnd>>

\* endTags[startTags.index(st)]
EndTagOf(st) == endTags[CHOOSE i \in 1..Len(startTags) : startTags[i] = st]

-----------------------------------------------------------------------------
(* add_formatting, lines 80-145.  A run is [text, style]: style "None" is a *)
(* run added with no style and no font attribute; "bold", "italic",        *)
(* "superscript" and "subscript" are the attribute set on the run; the     *)
(* other values are the character style passed to add_run.                 *)

Run(text, style) == [text |-> text, style |-> style]

\* line 85: res = [n for n in startTags if (n in ptext)]
FoundTags(txt) == SelectSeq(startTags, LAMBDA n : Contains(txt, n))

\* lines 94-98: the [begin, end, st] entries of one start tag
MatchesOf(st, txt) ==
    LET begins == FindIter(st, txt)
    IN  [k \in 1..Len(begins) |->
            <<begins[k], Find(txt, EndTagOf(st), begins[k]), st>>]

RECURSIVE AllMatches(_, _)
AllMatches(res, txt) ==
    IF res = <<>> THEN <<>>
    ELSE MatchesOf(Head(res), txt) \o AllMatches(Tail(res), txt)

\* line 99: list order of [begin, end, st]; two entries never share begin,
\* because no start tag is a prefix of another
PosBefore(a, b) == a[1] < b[1] \/ (a[1] = b[1] /\ a[2] < b[2])

\* lines 92-99
FindPos(txt) == SortSeq(AllMatches(FoundTags(txt), txt), PosBefore)

\* lines 115-124: the run of the tagged text, for the tags that have a branch
TaggedRun(st, tagged_text) ==
    IF st = Open(<<"b">>) THEN <<Run(tagged_text, "bold")>>
    ELSE IF st = Open(<<"i">>) THEN <<Run(tagged_text, "italic")>>
    ELSE IF st = Open(<<"s", "u", "p">>) THEN <<Run(tagged_text, "superscript")>>
    ELSE IF st = Open(<<"s", "u", "b">>) THEN <<Run(tagged_text, "subscript")>>
    ELSE IF st = spanStart THEN <<Run(tagged_text, "DMUUnitLabeltypestyle")>>
    ELSE <<>>

\* lines 107-143: the runs of entries i.. of find_pos
RECURSIVE SliceRuns(_, _, _)
SliceRuns(txt, find_pos, i) ==
    IF i > Len(find_pos) THEN <<>>
    ELSE LET item     == find_pos[i]
             start    == item[1] + Len(item[3])
             end      == item[2]
             tagged   == Slice(txt, start, end)
             start_n  == end + Len(EndTagOf(item[3]))
             end_n    == IF i < Len(find_pos) THEN find_pos[i + 1][1] ELSE Len(txt)
             untagged == Slice(txt, start_n, end_n)
         IN  TaggedRun(item[3], tagged)
             \o (IF untagged # <<>> THEN <<Run(untagged, "None")>> ELSE <<>>)
             \o SliceRuns(txt, find_pos, i + 1)

\* variant of line 145 that guards the run as lines 103 and 142 guard theirs
UntaggedRuns_SkipEmpty(txt) == IF txt # <<>> THEN <<Run(txt, "None")>> ELSE <<>>

\* line 145: the text holds no start tag
UntaggedRuns(txt) == <<Run(txt, "None")>>

\* variant of lines 99-143 that forgets the text before the first tag
FormattedRuns_NoBefore(txt) ==
    IF FoundTags(txt) # <<>>
    THEN SliceRuns(txt, FindPos(txt), 1)
    ELSE UntaggedRuns(txt)

\* add_formatting(paragraph, ptext): the runs it appends to the paragraph
FormattedRuns(txt) ==
    IF FoundTags(txt) # <<>>
    THEN LET find_pos == FindPos(txt)
             before   == Slice(txt, 0, find_pos[1][1])
         IN  (IF before # <<>> THEN <<Run(before, "None")>> ELSE <<>>)
             \o SliceRuns(txt, find_pos, 1)
    ELSE UntaggedRuns(txt)

add_formatting(paragraph, txt) ==
    [paragraph EXCEPT !.runs = @ \o FormattedRuns(txt)]

-----------------------------------------------------------------------------
(* Small predicates, lines 61-78 *)

\* lines 61-65
isNotBlank(thing) == thing # <<>> /\ thing # None

\* lines 67-72: the loop returns in its first round, so only 'DMUHeadnote' is
\* looked for; the script never calls this function
isKnownStyle(pStyle) == Find(pStyle, <<"D", "M", "U", "H", "e", "a", "d", "n", "o", "t", "e">>, 0) > -1

\* variant of lines 74-78 without the test for a text of spaces only
notNullText_SpacesCount(txt) ==
    ~ (\/ txt = <<"#", "n", "u", "l", "l">>
       \/ txt = None
       \/ txt = <<"#", "N", "u", "l", "l">>
       \/ txt = <<"#">>
       \/ txt = <<>>)

\* lines 74-78
notNullText(txt) ==
    ~ (\/ txt = <<"#", "n", "u", "l", "l">>
       \/ txt = None
       \/ txt = <<"#", "N", "u", "l", "l">>
       \/ txt = <<"#">>
       \/ txt = <<>>
       \/ OnlyWhitespace(txt))

-----------------------------------------------------------------------------
(* Paragraph styles and the other literals of the script *)

DMU_Heading1 == <<"D", "M", "U", "-", "H", "e", "a", "d", "i", "n", "g", "1">>

DMUUnit1 == <<"D", "M", "U", "U", "n", "i", "t", "1">>

DMUUnit4 == <<"D", "M", "U", "U", "n", "i", "t", "4">>

DMUHeadnote == <<"D", "M", "U", "H", "e", "a", "d", "n", "o", "t", "e">>

DMUParagraph == <<"D", "M", "U", "P", "a", "r", "a", "g", "r", "a", "p", "h">>

DMUUnit11stafterheading == <<"D", "M", "U", "U", "n", "i", "t", "1", "1", "s", "t", "a", "f", "t", "e", "r", "h", "e", "a", "d", "i", "n", "g">>

\* python-docx gives a paragraph added with no style the document default
DefaultStyle == <<>>

TitleLMU == <<"L", "I", "S", "T", " ", "O", "F", " ", "M", "A", "P", " ", "U", "N", "I", "T", "S">>

TitleDMU == <<"D", "E", "S", "C", "R", "I", "P", "T", "I", "O", "N", " ", "O", "F", " ", "M", "A", "P", " ", "U", "N", "I", "T", "S">>

\* a paragraph of the document; row is the number of the cursor row during
\* whose processing it was created (0 for the title)
Paragraph(style, runs, row) == [style |-> style, runs |-> runs, row |-> row]

\* document.add_paragraph(text, style): a paragraph with one run, or with
\* none when text is None or empty
NewParagraph(text, style, row) ==
    Paragraph(style, IF isNotBlank(text) THEN <<Run(text, "None")>> ELSE <<>>, row)

-----------------------------------------------------------------------------
(* The rows of DescriptionOfMapUnits, in HierarchyKey order (lines 186-189) *)

Row(mapunit, label, name, age, description, paragraphstyle) ==
    [mapunit |-> mapunit, label |-> label, name |-> name, age |-> age,
     description |-> description, paragraphstyle |-> paragraphstyle]

BR == <<"<", "b", "r", ">">>

Tb == <<"T", "b">>

Qa == <<"Q", "a">>

Al == <<"A", "l">>

Hol == <<"H">>

\* a description of two paragraphs, the second with a bold span
TwoParas == <<"x">> \o BR \o Open(<<"b">>) \o <<"y">> \o Close(<<"b">>)

\* unit rows: both styles, with and without the abbreviation fields
UnitRowsByLabel ==
    {Row(ab[1], ab[2], Al, Hol, None, st) :
        ab \in {<<None, None>>, <<Tb, Qa>>}, st \in {DMUUnit1, DMUUnit4}}

\* unit rows: the text fields, blank and not
UnitRowsByText ==
    {Row(Tb, Qa, None, None, None, DMUUnit1),
     Row(Tb, Qa, Al, None, <<"x">>, DMUUnit1),
     Row(Tb, Qa, <<>>, Hol, TwoParas, DMUUnit1),
     Row(None, None, Al, None, <<"x">>, DMUUnit1)}

HeadingRows ==
    {Row(None, None, Al, None, d, DMU_Heading1) :
        d \in {None, <<"h">>, <<" ">>, <<"#">>, <<"h">> \o BR \o <<"h">>}}

\* a headnote row, and a row of a style the loop does not know
OtherRows ==
    {Row(None, None, None, None, <<"n">>, DMUHeadnote),
     Row(None, None, Al, None, <<"n">>, DMUHeadnote),
     Row(None, None, Al, None, <<"p">>, DMUParagraph)}

Rows == UnitRowsByLabel \cup UnitRowsByText \cup HeadingRows \cup OtherRows

-----------------------------------------------------------------------------
(* The steps of the record loop *)

\* line 201: first_row[2].lower is the bound method, not its result, and a
\* method is never an element of a list of strings
IsTitleRow(first_row) == FALSE

\* line 210
IsHeading(style) == Find(style, <<"D", "M", "U", "-", "H", "e", "a", "d", "i", "n", "g">>, 0) > -1

\* variant of line 218 that takes any style of the DMU family for a unit
IsUnit_AnyDMU(style) == Find(style, <<"D", "M", "U">>, 0) > -1

\* line 218, reached when line 210 fails
IsUnit(style) == Find(style, <<"D", "M", "U", "U", "n", "i", "t">>, 0) > -1

\* lines 221-224
UnitStyle(last, style) == IF last THEN DMUUnit11stafterheading ELSE style

\* lines 227-230: abbrv is assigned only when the chosen field holds text
SelectAbbrv(cur, r, useMapUnit) ==
    IF ~useMapUnit /\ notNullText(r.label) THEN r.label
    ELSE IF useMapUnit /\ notNullText(r.mapunit) THEN r.mapunit
    ELSE cur

\* lines 231-233
LabelText(a, style) ==
    LET one == a \o <<"\t">>
    IN  IF Slice(style, -1, Len(style)) \in {<<"4">>, <<"5">>}
        THEN one \o <<"\t">> ELSE one

\* variant of lines 251-261 that keeps only the pieces that hold text
SplitDescription_DropEmpty(desc_text) ==
    SelectSeq(IF Contains(desc_text, BR) THEN Split(desc_text, BR)
              ELSE IF Contains(desc_text, Open(<<"p">>))
              THEN LET paras == Split(desc_text, Open(<<"p">>))
                   IN  [k \in 1..Len(paras) |-> Remove(paras[k], Close(<<"p">>))]
              ELSE SplitLines(desc_text),
              LAMBDA t : t # <<>>)

\* variant of lines 251-261 that looks for the paragraph marker first
SplitDescription_ParagraphFirst(desc_text) ==
    IF Contains(desc_text, Open(<<"p">>))
    THEN LET paras == Split(desc_text, Open(<<"p">>))
         IN  [k \in 1..Len(paras) |-> Remove(paras[k], Close(<<"p">>))]
    ELSE IF Contains(desc_text, BR) THEN Split(desc_text, BR)
    ELSE SplitLines(desc_text)

\* lines 251-261
SplitDescription(desc_text) ==
    IF Contains(desc_text, BR) THEN Split(desc_text, BR)
    ELSE IF Contains(desc_text, Open(<<"p">>))
    THEN LET paras == Split(desc_text, Open(<<"p">>))
         IN  [k \in 1..Len(paras) |-> Remove(paras[k], Close(<<"p">>))]
    ELSE SplitLines(desc_text)

\* variant of lines 276-279 with the two assignments exchanged
FlagAfterUnit_Swapped(style) == ~ (Find(style, <<"H", "e", "a", "d">>, 0) > -1)

\* lines 276-279, inside the unit branch
FlagAfterUnit(style) == Find(style, <<"H", "e", "a", "d">>, 0) > -1

\* The statements of the loop body that touch the document, in the order the
\* body runs them.  target counts the paragraphs the body has created: 1 is the
\* paragraph bound to header_pr or unit, 2 the one bound to headnote or to addP
\* in the first round of line 271, and so on.
AddParagraph(style) == [op |-> "add_paragraph", target |-> 0, style |-> style, run |-> Run(<<>>, "None")]

SetStyle(target, style) == [op |-> "style", target |-> target, style |-> style, run |-> Run(<<>>, "None")]

AddRun(target, run) == [op |-> "add_run", target |-> target, style |-> <<>>, run |-> run]

\* add_formatting(paragraph, txt) as the add_run calls it makes on paragraph
AddRuns(target, runs) == [k \in 1..Len(runs) |-> AddRun(target, runs[k])]

RECURSIVE ConcatAll(_)
ConcatAll(ss) == IF ss = <<>> THEN <<>> ELSE Head(ss) \o ConcatAll(Tail(ss))

\* the paragraphs the statements stmts make during row n, after paras
RECURSIVE Execute(_, _, _)
Execute(paras, stmts, n) ==
    IF stmts = <<>> THEN paras
    ELSE LET s == Head(stmts)
             next == IF s.op = "add_paragraph" THEN Append(paras, Paragraph(s.style, <<>>, n))
                     ELSE IF s.op = "style" THEN [paras EXCEPT ![s.target].style = s.style]
                     ELSE [paras EXCEPT ![s.target].runs = Append(@, s.run)]
         IN  Execute(next, Tail(stmts), n)

\* lines 211-215: the statements of a heading row
HeadingStatements(r) ==
    <<AddParagraph(r.paragraphstyle)>>
    \o AddRuns(1, FormattedRuns(r.name))
    \o (IF notNullText(r.description)
        THEN <<AddParagraph(DMUHeadnote)>> \o AddRuns(2, FormattedRuns(r.description))
        ELSE <<>>)

\* lines 210-216: the paragraphs of a heading row
HeadingParagraphs(r, n) == Execute(<<>>, HeadingStatements(r), n)

\* variant of lines 236-242 that writes the age before the name
NameAgeRuns_AgeFirst(r) ==
    (IF isNotBlank(r.age)
     THEN <<Run(<<"(">> \o r.age \o <<")">>, "None")>> ELSE <<>>)
    \o (IF isNotBlank(r.name) THEN <<Run(r.name, "DMUUnitNameAgetypestyle")>> ELSE <<>>)

\* lines 236-242: the name and age runs
NameAgeRuns(r) ==
    (IF isNotBlank(r.name) THEN <<Run(r.name, "DMUUnitNameAgetypestyle")>> ELSE <<>>)
    \o (IF isNotBlank(r.age)
        THEN <<Run(<<"(">> \o r.age \o <<")">>, "None")>> ELSE <<>>)

\* variant of lines 244-274 that creates every further paragraph before
\* filling any paragraph with the description
DescriptionStatements_ParagraphsFirst(r, lmu) ==
    IF isNotBlank(r.description) /\ ~lmu
    THEN LET paras == SplitDescription(r.description)
         IN  <<AddRun(1, Run(emDash, "None"))>>
             \o [k \in 1..(Len(paras) - 1) |-> AddParagraph(DMUParagraph)]
             \o AddRuns(1, FormattedRuns(paras[1]))
             \o ConcatAll([k \in 1..(Len(paras) - 1) |->
                    AddRuns(k + 1, FormattedRuns(paras[k + 1]))])
    ELSE <<>>

\* lines 244-274: the statements the description adds to those of the unit
DescriptionStatements(r, lmu) ==
    IF isNotBlank(r.description) /\ ~lmu
    THEN LET paras == SplitDescription(r.description)
         IN  <<AddRun(1, Run(emDash, "None"))>>
             \o AddRuns(1, FormattedRuns(paras[1]))
             \o ConcatAll([k \in 1..(Len(paras) - 1) |->
                    <<AddParagraph(DMUParagraph)>>
                    \o AddRuns(k + 1, FormattedRuns(paras[k + 1]))])
    ELSE <<>>

\* lines 220-224: the empty paragraph and its style
UnitStart(r, last) ==
    <<AddParagraph(DefaultStyle), SetStyle(1, UnitStyle(last, r.paragraphstyle))>>

\* lines 220-274: the statements of a unit row whose label text is label
UnitStatements(r, last, label, lmu) ==
    UnitStart(r, last)
    \o <<AddRun(1, Run(label, "DMUUnitLabeltypestyle"))>>
    \o AddRuns(1, NameAgeRuns(r))
    \o DescriptionStatements(r, lmu)

\* lines 220-274: the paragraphs of a unit row whose label text is label
UnitParagraphs(r, last, label, lmu, n) ==
    Execute(<<>>, UnitStatements(r, last, label, lmu), n)

\* lines 209-282: the statements of the loop body on row r, with the flag at
\* last and abbrv bound to cur (line 231 raises NameError when it is unbound)
RowStatements(r, last, cur, useMapUnit, lmu) ==
    IF IsHeading(r.paragraphstyle) THEN HeadingStatements(r)
    ELSE IF IsUnit(r.paragraphstyle)
    THEN LET a == SelectAbbrv(cur, r, useMapUnit)
         IN  IF a = Unbound THEN UnitStart(r, last)
             ELSE UnitStatements(r, last, LabelText(a, r.paragraphstyle), lmu)
    ELSE <<>>

-----------------------------------------------------------------------------
(* The script, lines 147-292 *)

\* AttributeByKeyValues is not running
KVOff ==
    /\ forceCalc = FALSE
    /\ given = <<>>
    /\ table = <<>>
    /\ cursor = 0
    /\ failed = {}
    /\ kpc = "off"

Init ==
    /\ useMapUnitForUnitLabl \in BOOLEAN
    /\ isLMU \in BOOLEAN
    /\ document = <<>>
    /\ lastParaWasHeading = FALSE
    /\ abbrv = Unbound
    /\ rows = <<>>
    /\ pc = "start"
    /\ ptext = <<>>
    /\ out = <<>>
    /\ tpc = "off"
    /\ KVOff

\* lines 193-196
TitleParagraph == NewParagraph(IF isLMU THEN TitleLMU ELSE TitleDMU, DMU_Heading1, 0)

\* lines 193-206 with a first row r; r2 is the row line 202 would consume
Start(r, r2) ==
    /\ pc = "start"
    /\ IF r.name = None
       THEN \* line 201: None has no attribute lower
            /\ pc' = "crashed"
            /\ rows' = <<r>>
            /\ document' = <<TitleParagraph>>
       ELSE /\ pc' = "streaming"
            /\ rows' = IF IsTitleRow(r) THEN <<r, r2>> ELSE <<r>>
            /\ document' =
                 <<TitleParagraph>>
                 \o (IF r.paragraphstyle = DMUHeadnote /\ ~isLMU
                     THEN <<NewParagraph(r.description, DMUHeadnote, 1)>>
                     ELSE <<>>)
    /\ UNCHANGED <<useMapUnitForUnitLabl, isLMU, lastParaWasHeading, abbrv,
                   ptext, out, tpc>>
    /\ UNCHANGED kvVars

\* line 200 on an empty table: next() raises StopIteration
StartNoRows ==
    /\ pc = "start"
    /\ pc' = "crashed"
    /\ document' = <<TitleParagraph>>
    /\ UNCHANGED <<useMapUnitForUnitLabl, isLMU, lastParaWasHeading, abbrv,
                   rows, ptext, out, tpc>>
    /\ UNCHANGED kvVars

\* variant of lines 210-216 that puts the new paragraphs at the top of the body
HeadingRow_Prepends(r) ==
    /\ pc = "streaming"
    /\ Len(rows) < MaxRows
    /\ IsHeading(r.paragraphstyle)
    /\ rows' = Append(rows, r)
    /\ document' = HeadingParagraphs(r, Len(rows) + 1) \o document
    /\ UNCHANGED <<useMapUnitForUnitLabl, isLMU, lastParaWasHeading, abbrv,
                   pc, ptext, out, tpc>>
    /\ UNCHANGED kvVars

\* lines 210-216: the loop body on a heading row
HeadingRow(r) ==
    /\ pc = "streaming"
    /\ Len(rows) < MaxRows
    /\ IsHeading(r.paragraphstyle)
    /\ rows' = Append(rows, r)
    /\ document' = document \o HeadingParagraphs(r, Len(rows) + 1)
    /\ UNCHANGED <<useMapUnitForUnitLabl, isLMU, lastParaWasHeading, abbrv,
                   pc, ptext, out, tpc>>
    /\ UNCHANGED kvVars

\* lines 218-279: the loop body on a unit row
UnitRow(r) ==
    /\ pc = "streaming"
    /\ Len(rows) < MaxRows
    /\ ~IsHeading(r.paragraphstyle)
    /\ IsUnit(r.paragraphstyle)
    /\ rows' = Append(rows, r)
    /\ LET n == Len(rows) + 1
           a == SelectAbbrv(abbrv, r, useMapUnitForUnitLabl)
       IN  IF a = Unbound
           THEN \* line 231: NameError, after lines 220-224 added the paragraph
                /\ pc' = "crashed"
                /\ document' = document \o
                       Execute(<<>>, UnitStart(r, lastParaWasHeading), n)
                /\ UNCHANGED <<abbrv, lastParaWasHeading>>
           ELSE /\ pc' = pc
                /\ abbrv' = LabelText(a, r.paragraphstyle)
                /\ document' = document \o
                       UnitParagraphs(r, lastParaWasHeading,
                                      LabelText(a, r.paragraphstyle), isLMU, n)
                /\ lastParaWasHeading' = FlagAfterUnit(r.paragraphstyle)
    /\ UNCHANGED <<useMapUnitForUnitLabl, isLMU, ptext, out, tpc>>
    /\ UNCHANGED kvVars

\* lines 281-282: the loop body on any other row
UnrecognizedRow(r) ==
    /\ pc = "streaming"
    /\ Len(rows) < MaxRows
    /\ ~IsHeading(r.paragraphstyle)
    /\ ~IsUnit(r.paragraphstyle)
    /\ rows' = Append(rows, r)
    /\ UNCHANGED <<useMapUnitForUnitLabl, isLMU, document, lastParaWasHeading,
                   abbrv, pc, ptext, out, tpc>>
    /\ UNCHANGED kvVars

\* lines 284-292: the cursor is exhausted and the document is saved
EndOfRows ==
    /\ pc = "streaming"
    /\ pc' = "saved"
    /\ UNCHANGED <<useMapUnitForUnitLabl, isLMU, document, lastParaWasHeading,
                   abbrv, rows, ptext, out, tpc>>
    /\ UNCHANGED kvVars

Next ==
    \/ \E r, r2 \in Rows : Start(r, r2)
    \/ StartNoRows
    \/ \E r \in Rows : HeadingRow(r)
    \/ \E r \in Rows : UnitRow(r)
    \/ \E r \in Rows : UnrecognizedRow(r)
    \/ EndOfRows

Spec == Init /\ [][Next]_vars

-----------------------------------------------------------------------------
(* The text functions on their own: add_formatting and the paragraph split *)
(* applied to texts built from up to MaxTokens tokens of one family.       *)

Letter == <<"a">>

TokenFamilies ==
    { {Letter, Open(<<"b">>), Close(<<"b">>), Open(<<"i">>), Close(<<"i">>),
       Open(<<"p">>), Close(<<"p">>)},
      {Letter, Open(<<"s", "u", "p">>), Close(<<"s", "u", "p">>),
       Open(<<"s", "u", "b">>), Close(<<"s", "u", "b">>), spanStart, spanEnd},
      {Letter, Open(<<"u", "l">>), Close(<<"u", "l">>), Open(<<"u">>), Close(<<"u">>)},
      {Letter, Open(<<"g">>), Close(<<"g">>), Open(<<"u">>), Close(<<"u">>)},
      {Letter, BR, Open(<<"p">>), Close(<<"p">>), <<"\n">>, <<"\r">>} }

RECURSIVE Concats(_, _)
Concats(F, n) ==
    IF n = 0 THEN {<<>>}
    ELSE LET S == Concats(F, n - 1) IN S \cup {s \o t : s \in S, t \in F}

Texts == UNION {Concats(F, MaxTokens) : F \in TokenFamilies}

InitText ==
    /\ ptext \in Texts
    /\ out = <<>>
    /\ tpc = "ready"
    /\ useMapUnitForUnitLabl = FALSE
    /\ isLMU = FALSE
    /\ document = <<>>
    /\ lastParaWasHeading = FALSE
    /\ abbrv = Unbound
    /\ rows = <<>>
    /\ pc = "off"
    /\ KVOff

\* add_formatting on a fresh paragraph
FormatText ==
    /\ tpc = "ready"
    /\ out' = add_formatting(Paragraph(DefaultStyle, <<>>, 0), ptext).runs
    /\ tpc' = "formatted"
    /\ UNCHANGED <<useMapUnitForUnitLabl, isLMU, document, lastParaWasHeading,
                   abbrv, rows, pc, ptext>>
    /\ UNCHANGED kvVars

\* lines 245-261: the split, which line 245 reaches only with a non-blank text
SplitText ==
    /\ tpc = "ready"
    /\ isNotBlank(ptext)
    /\ out' = SplitDescription(ptext)
    /\ tpc' = "split"
    /\ UNCHANGED <<useMapUnitForUnitLabl, isLMU, document, lastParaWasHeading,
                   abbrv, rows, pc, ptext>>
    /\ UNCHANGED kvVars

NextText == FormatText \/ SplitText

SpecText == InitText /\ [][NextText]_vars

-----------------------------------------------------------------------------
(* gems-toolbox/GeMS_AttributeByKeyValues_AGP2.py: the update loop of main *)

\* lines 22-28, for the parameter as a string
eval_bool(param) == param \in {"1", "true", "True", "yes", "Yes", "on", "On", "hella"}

\* the values the tool may be given as its third parameter
Params == {"true", "false", "Yes", "no"}

\* s.strip()
RECURSIVE LStrip(_)
LStrip(s) == IF s # <<>> /\ Head(s) \in Whitespace THEN LStrip(Tail(s)) ELSE s

RECURSIVE RStrip(_)
RStrip(s) ==
    IF s # <<>> /\ s[Len(s)] \in Whitespace THEN RStrip(SubSeq(s, 1, Len(s) - 1)) ELSE s

Strip(s) == RStrip(LStrip(s))

KeyA == <<"A">>

\* lines 102 and 108: one value line of the key-value file, 'A|x|y'
update_val_dict == [k \in {KeyA} |-> <<(<<"x">>), (<<"y">>)>>]

\* what a cell of the attribute table may hold: null, '', a value
Cells == {None, <<>>, <<"o">>}

\* the rows of the table: the independent field, then the dependent fields
TableRows == {<<k, c1, c2>> : k \in {KeyA, <<"A", " ">>, <<"Z">>}, c1 \in Cells, c2 \in Cells}

RECURSIVE TablesUpTo(_)
TablesUpTo(n) ==
    IF n = 0 THEN {<<>>}
    ELSE LET T == TablesUpTo(n - 1) IN T \cup {Append(t, r) : t \in T, r \in TableRows}

\* line 123: the test of the cell at line 123, for a cell that is a string
CellIsEmpty(cell) == Strip(cell) = None

\* lines 116-124: the row after the inner loop
UpdatedRow(row, update_vals, force) ==
    [n \in 1..Len(row) |->
        IF n = 1 THEN row[1]
        ELSE IF force THEN update_vals[n - 1]
        ELSE IF CellIsEmpty(row[n]) THEN update_vals[n - 1]
        ELSE row[n]]

\* line 123 on a null cell: None has no attribute strip
StripRaises(row, force) == ~force /\ \E n \in 2..Len(row) : row[n] = None

InitKV ==
    /\ \E param \in Params : forceCalc = eval_bool(param)
    /\ given \in TablesUpTo(MaxTableRows)
    /\ table = given
    /\ cursor = 0
    /\ failed = {}
    /\ kpc = "running"
    /\ useMapUnitForUnitLabl = FALSE
    /\ isLMU = FALSE
    /\ document = <<>>
    /\ lastParaWasHeading = FALSE
    /\ abbrv = Unbound
    /\ rows = <<>>
    /\ pc = "off"
    /\ ptext = <<>>
    /\ out = <<>>
    /\ tpc = "off"

\* lines 112-129: one round of the cursor loop; ok tells whether updateRow
\* succeeds (a failure is caught and reported, lines 127-129)
UpdateCursorRow(ok) ==
    /\ kpc = "running"
    /\ cursor < Len(table)
    /\ LET row == table[cursor + 1]
       IN  IF Strip(row[1]) \notin DOMAIN update_val_dict
           THEN \* line 115: KeyError
                /\ kpc' = "crashed"
                /\ UNCHANGED <<table, failed, cursor>>
           ELSE IF StripRaises(row, forceCalc)
           THEN \* line 123: AttributeError, before updateRow is reached
                /\ kpc' = "crashed"
                /\ UNCHANGED <<table, failed, cursor>>
           ELSE /\ kpc' = kpc
                /\ cursor' = cursor + 1
                /\ IF ok
                   THEN /\ table' = [table EXCEPT ![cursor + 1] =
                               UpdatedRow(row, update_val_dict[Strip(row[1])], forceCalc)]
                        /\ failed' = failed
                   ELSE /\ table' = table
                        /\ failed' = failed \cup {cursor + 1}
    /\ UNCHANGED <<forceCalc, given>>
    /\ UNCHANGED docxVars

\* the cursor is exhausted
EndOfCursor ==
    /\ kpc = "running"
    /\ cursor = Len(table)
    /\ kpc' = "done"
    /\ UNCHANGED <<forceCalc, given, table, cursor, failed>>
    /\ UNCHANGED docxVars

NextKV ==
    \/ \E ok \in BOOLEAN : UpdateCursorRow(ok)
    \/ EndOfCursor

SpecKV == InitKV /\ [][NextKV]_vars

-----------------------------------------------------------------------------
(* Vocabulary of the properties *)

\* the paragraphs created while row n was processed, in document order
ParasOf(n) == SelectSeq(document, LAMBDA p : p.row = n)

\* rows 2.. are the rows the loop dispatches
StreamedRows == 2..Len(rows)

HasTag(style, marker) == \E i \in 0..Len(style) : MatchAt(style, marker, i)

HeadingTag(r) == HasTag(r.paragraphstyle, <<"D", "M", "U", "-", "H", "e", "a", "d", "i", "n", "g">>)

UnitTag(r) == ~HeadingTag(r) /\ HasTag(r.paragraphstyle, <<"D", "M", "U", "U", "n", "i", "t">>)

RECURSIVE Flatten(_)
Flatten(ss) == IF ss = <<>> THEN <<>> ELSE Head(ss) \o Flatten(Tail(ss))

\* the texts of a sequence of runs, concatenated
RunText(runs) == Flatten([k \in 1..Len(runs) |-> runs[k].text])

\* the offsets at which marker m occurs in txt
Occurrences(txt, m) == {i \in 0..Len(txt) : MatchAt(txt, m, i)}

TagIndex == 1..Len(startTags)

\* no catalog opening marker occurs in txt
NoStartTag(txt) == \A t \in TagIndex : Occurrences(txt, startTags[t]) = {}

\* the offset of the closing marker that follows an opening marker at b, or -1
ClosingAfter(txt, t, b) ==
    LET later == {e \in Occurrences(txt, endTags[t]) : e >= b}
    IN  IF later = {} THEN -1 ELSE CHOOSE e \in later : \A f \in later : e <= f

\* the character positions (1-based) of the markers of every opening marker
\* that has a closing marker after it
PairPositions(txt) ==
    UNION {IF ClosingAfter(txt, t, b) = -1 THEN {}
           ELSE (b + 1)..(b + Len(startTags[t]))
                \cup (ClosingAfter(txt, t, b) + 1)..(ClosingAfter(txt, t, b) + Len(endTags[t])) :
           <<t, b>> \in {tb \in TagIndex \X (0..Len(txt)) :
                            tb[2] \in Occurrences(txt, startTags[tb[1]])}}

RECURSIVE KeepFrom(_, _, _)
KeepFrom(txt, del, i) ==
    IF i > Len(txt) THEN <<>>
    ELSE (IF i \in del THEN <<>> ELSE <<txt[i]>>) \o KeepFrom(txt, del, i + 1)

\* txt with every recognized opening/closing marker pair removed
StripPairs(txt) == KeepFrom(txt, PairPositions(txt), 1)

\* txt holds an opening marker, and no opening marker in it is ever closed
OnlyUnterminated(txt) ==
    /\ ~NoStartTag(txt)
    /\ \A t \in TagIndex : \A b \in Occurrences(txt, startTags[t]) :
           ClosingAfter(txt, t, b) = -1

\* the abbreviation field the configuration selects
AbbreviationOf(r) == IF useMapUnitForUnitLabl THEN r.mapunit ELSE r.label

MissingAbbreviation(r) == UnitTag(r) /\ AbbreviationOf(r) \in {None, <<>>}

OnlyTabs(txt) == \A i \in 1..Len(txt) : txt[i] = "\t"

TitlePlaceholders ==
    {TitleDMU, TitleLMU,
     <<"d", "e", "s", "c", "r", "i", "p", "t", "i", "o", "n", " ", "o", "f", " ",
       "m", "a", "p", " ", "u", "n", "i", "t", "s">>,
     <<"l", "i", "s", "t", " ", "o", "f", " ", "m", "a", "p", " ", "u", "n", "i", "t", "s">>}

-----------------------------------------------------------------------------
(* Properties of the record loop, under Spec *)

\* C1: a unit row that immediately follows a heading row dispatched by the loop
\* gets its paragraph in the after-heading style, not in its own style.
C1_UnitAfterHeadingStyle ==
    \A n \in StreamedRows :
        (n - 1 \in StreamedRows /\ HeadingTag(rows[n - 1]) /\ UnitTag(rows[n]))
        => /\ ParasOf(n) # <<>>
           /\ ParasOf(n)[1].style = DMUUnit11stafterheading

\* C2: a unit row that immediately follows another unit row gets its paragraph
\* in its own paragraph style, whatever rows came before.
C2_UnitAfterUnitStyle ==
    \A n \in StreamedRows :
        (UnitTag(rows[n - 1]) /\ UnitTag(rows[n]))
        => /\ ParasOf(n) # <<>>
           /\ ParasOf(n)[1].style = rows[n].paragraphstyle
           /\ ParasOf(n)[1].style # DMUUnit11stafterheading

C2_Witness ==
    /\ Len(rows) = 3
    /\ UnitTag(rows[2])
    /\ UnitTag(rows[3])
    /\ rows[3].paragraphstyle = DMUUnit4
    /\ Len(ParasOf(3)) = 1
    /\ ParasOf(3)[1].runs # <<>>

\* C6: a first row whose name is no title placeholder is dispatched like any
\* other row, so a first row that is a heading or a unit has its paragraph.
C6_FirstRowDispatched ==
    (/\ pc \in {"streaming", "saved"}
     /\ rows[1].name \notin TitlePlaceholders
     /\ (HeadingTag(rows[1]) \/ UnitTag(rows[1])))
    => ParasOf(1) # <<>>

\* C7: in list-only mode the document holds no headnote paragraph, no
\* continuation paragraph, and no em-dash run.
C7_ListOnlyNoDescriptions ==
    isLMU =>
        \A k \in 1..Len(document) :
            /\ document[k].style # DMUHeadnote
            /\ document[k].style # DMUParagraph
            /\ \A j \in 1..Len(document[k].runs) : document[k].runs[j].text # emDash

\* C8: in a saved document, a unit row whose selected abbreviation field is
\* null or blank has either no paragraph (it was skipped) or a label run that
\* holds nothing but tab characters.
C8_NoFabricatedLabel ==
    pc = "saved" =>
        \A n \in StreamedRows :
            MissingAbbreviation(rows[n])
            => \/ ParasOf(n) = <<>>
               \/ /\ ParasOf(n)[1].runs # <<>>
                  /\ OnlyTabs(ParasOf(n)[1].runs[1].text)

\* C9: a row with an unrecognized paragraph style or a missing abbreviation
\* never ends the pass: the script does not fail on it.
C9_NonFatalNeverInterrupts ==
    (/\ Len(rows) >= 2
     /\ \/ MissingAbbreviation(rows[Len(rows)])
        \/ ~HeadingTag(rows[Len(rows)]) /\ ~UnitTag(rows[Len(rows)]))
    => pc # "crashed"

-----------------------------------------------------------------------------
(* Properties of the text functions, under SpecText *)

\* C3: the texts of the runs add_formatting appends, concatenated in order, are
\* the input with every recognized opening/closing marker pair removed.
C3_Coverage ==
    tpc = "formatted" => RunText(out) = StripPairs(ptext)

\* C4: for a text whose opening markers are never closed, add_formatting appends
\* one unstyled run holding the input unchanged, opening marker included.
C4_UnterminatedTag ==
    (tpc = "formatted" /\ OnlyUnterminated(ptext))
    => out = <<Run(ptext, "None")>>

\* C5: for a text in which no catalog opening marker occurs, add_formatting
\* appends exactly one unstyled run whose text is the input unchanged.
C5_UntaggedText ==
    (tpc = "formatted" /\ NoStartTag(ptext))
    => out = <<Run(ptext, "None")>>

C5_Witness ==
    /\ tpc = "formatted"
    /\ NoStartTag(ptext)
    /\ Occurrences(ptext, Close(<<"b">>)) # {}
    /\ Occurrences(ptext, Letter) # {}
    /\ Len(out) = 1

Count(txt, m) == Cardinality(Occurrences(txt, m))

RECURSIVE SumCount(_, _)
SumCount(pieces, m) ==
    IF pieces = <<>> THEN 0 ELSE Count(Head(pieces), m) + SumCount(Tail(pieces), m)

RECURSIVE SumLen(_)
SumLen(pieces) == IF pieces = <<>> THEN 0 ELSE Len(Head(pieces)) + SumLen(Tail(pieces))

LineBreakCount(txt) == Cardinality({i \in 1..Len(txt) : txt[i] \in {"\n", "\r"}})

\* C10: the split uses the first marker family that applies and no other: with
\* "<br>" in the text the pieces are the text cut at every "<br>", and every
\* "<p>", "</p>" and line-break character is still inside a piece; with "<p>" and
\* no "<br>" the pieces are the text cut at every "<p>", less every "</p>", and
\* every line-break character is still inside a piece; otherwise the text is cut
\* at its line-break characters.
C10_SplitPriority ==
    tpc = "split" =>
        LET P  == Open(<<"p">>)
            CP == Close(<<"p">>)
        IN  IF Occurrences(ptext, BR) # {}
            THEN /\ Len(out) = Count(ptext, BR) + 1
                 /\ SumCount(out, BR) = 0
                 /\ SumLen(out) = Len(ptext) - Len(BR) * Count(ptext, BR)
                 /\ \A m \in {P, CP, <<"\n">>, <<"\r">>} :
                        SumCount(out, m) = Count(ptext, m)
            ELSE IF Occurrences(ptext, P) # {}
            THEN /\ Len(out) = Count(ptext, P) + 1
                 /\ SumLen(out) = Len(ptext) - Len(P) * Count(ptext, P)
                                             - Len(CP) * Count(ptext, CP)
                 /\ \A m \in {<<"\n">>, <<"\r">>} :
                        SumCount(out, m) = Count(ptext, m)
            ELSE /\ \A k \in 1..Len(out) : LineBreakCount(out[k]) = 0
                 /\ SumLen(out) = Len(ptext) - LineBreakCount(ptext)

C10_Witness ==
    /\ tpc = "split"
    /\ Occurrences(ptext, BR) # {}
    /\ Occurrences(ptext, Open(<<"p">>)) # {}
    /\ Occurrences(ptext, Close(<<"p">>)) # {}
    /\ LineBreakCount(ptext) > 0
    /\ Len(out) = 2

\* C11: the split never returns an empty list for a description the loop hands
\* it (a non-blank one), and a description with no "<br>", no "<p>" and no
\* line-break character comes back as exactly one piece, the description itself.
C11_SplitNeverEmpty ==
    tpc = "split" =>
        /\ Len(out) >= 1
        /\ (/\ Occurrences(ptext, BR) = {}
            /\ Occurrences(ptext, Open(<<"p">>)) = {}
            /\ LineBreakCount(ptext) = 0)
           => out = <<ptext>>

C11_Witness ==
    /\ tpc = "split"
    /\ Occurrences(ptext, BR) = {}
    /\ Occurrences(ptext, Open(<<"p">>)) = {}
    /\ LineBreakCount(ptext) = 0
    /\ Occurrences(ptext, Close(<<"p">>)) # {}
    /\ Len(ptext) > Len(Close(<<"p">>))
    /\ Len(out) = 1

\* the pieces with sep put back between them
RECURSIVE Join(_, _)
Join(pieces, sep) ==
    IF pieces = <<>> THEN <<>>
    ELSE IF Len(pieces) = 1 THEN pieces[1]
    ELSE pieces[1] \o sep \o Join(Tail(pieces), sep)

\* the character positions (1-based) of every occurrence of marker m
MarkerPositions(txt, m) == UNION {(i + 1)..(i + Len(m)) : i \in Occurrences(txt, m)}

\* txt without its occurrences of m
Without(txt, m) == KeepFrom(txt, MarkerPositions(txt, m), 1)

WithoutLineBreaks(txt) ==
    KeepFrom(txt, {i \in 1..Len(txt) : txt[i] \in {"\n", "\r"}}, 1)

\* C12 as claimed: the pieces joined with the marker that was consumed give the
\* input back: "<br>"; "<p>" (against the input without "</p>"); else the
\* line-break character.
C12_SplitRoundTrip ==
    tpc = "split" =>
        IF Occurrences(ptext, BR) # {} THEN Join(out, BR) = ptext
        ELSE IF Occurrences(ptext, Open(<<"p">>)) # {}
        THEN Join(out, Open(<<"p">>)) = Without(ptext, Close(<<"p">>))
        ELSE \/ Join(out, <<"\n">>) = ptext
             \/ Join(out, <<"\r">>) = ptext

\* C12 as amended: the same for "<br>" and "<p>"; on line-break characters the
\* pieces, concatenated in order, are the input without its line-break
\* characters, so no other character is lost.
C12_SplitRoundTripAmended ==
    tpc = "split" =>
        IF Occurrences(ptext, BR) # {} THEN Join(out, BR) = ptext
        ELSE IF Occurrences(ptext, Open(<<"p">>)) # {}
        THEN Join(out, Open(<<"p">>)) = Without(ptext, Close(<<"p">>))
        ELSE Flatten(out) = WithoutLineBreaks(ptext)

C12_Witness ==
    /\ tpc = "split"
    /\ Occurrences(ptext, BR) = {}
    /\ Occurrences(ptext, Open(<<"p">>)) = {}
    /\ LineBreakCount(ptext) = 2
    /\ ptext[1] = "a"
    /\ ptext[Len(ptext)] = "\n"
    /\ Len(out) = 2

\* a row whose style is neither a heading's nor a unit's
UnrecognizedTag(r) == ~HeadingTag(r) /\ ~UnitTag(r)

\* the loop has just taken one more row from the cursor
RowTaken == Len(rows) >= 1 /\ Len(rows') = Len(rows) + 1

\* C13: a row of no known category is skipped: the step that takes it appends
\* no paragraph, leaves the after-heading flag (and the label in hand) as they
\* were, and leaves the loop running for the next row.
C13_UnrecognizedSkipped ==
    [][(RowTaken /\ UnrecognizedTag(rows'[Len(rows')]))
       => /\ document' = document
          /\ lastParaWasHeading' = lastParaWasHeading
          /\ abbrv' = abbrv
          /\ pc' = "streaming"]_vars

C13_Witness ==
    /\ Len(rows) = 3
    /\ UnrecognizedTag(rows[2])
    /\ ParasOf(2) = <<>>
    /\ UnitTag(rows[3])
    /\ Len(ParasOf(3)) = 1
    /\ Len(ParasOf(3)[1].runs) = 3
    /\ pc = "streaming"

\* a field with nothing in it
Blank(field) == field \in {None, <<>>}

\* a field that holds a value: not null, not a '#' placeholder, not only spaces
Populated(field) ==
    /\ ~Blank(field)
    /\ field \notin {<<"#">>, <<"#", "n", "u", "l", "l">>, <<"#", "N", "u", "l", "l">>}
    /\ \E i \in 1..Len(field) : field[i] \notin Whitespace

RunTexts(runs) == [k \in 1..Len(runs) |-> runs[k].text]

\* the texts a unit paragraph starts with: label and tab(s), name, (age)
HeadTextsOf(r, tabs) ==
    <<AbbreviationOf(r) \o tabs>>
    \o (IF Blank(r.name) THEN <<>> ELSE <<r.name>>)
    \o (IF Blank(r.age) THEN <<>> ELSE <<(<<"(">> \o r.age \o <<")">>)>>)

\* C14: a unit row with a populated abbreviation and a blank description gives
\* exactly one paragraph whose runs are, in order, the abbreviation followed by
\* one or two tabs in the unit-label style, the name if it is not blank, and
\* the age in parentheses if it is not blank; no em-dash, no further paragraph.
C14_UnitWithoutDescription ==
    \A n \in StreamedRows :
        (/\ UnitTag(rows[n])
         /\ Populated(AbbreviationOf(rows[n]))
         /\ Blank(rows[n].description))
        => /\ Len(ParasOf(n)) = 1
           /\ LET runs == ParasOf(n)[1].runs
              IN  /\ \E tabs \in {<<"\t">>, <<"\t", "\t">>} :
                         RunTexts(runs) = HeadTextsOf(rows[n], tabs)
                  /\ runs[1].style = "DMUUnitLabeltypestyle"
                  /\ \A k \in 1..Len(runs) : runs[k].text # emDash

C14_Witness ==
    /\ Len(rows) >= 2
    /\ LET r == rows[Len(rows)]
       IN  /\ UnitTag(r)
           /\ Populated(AbbreviationOf(r))
           /\ Blank(r.description)
           /\ ~Blank(r.name)
           /\ ~Blank(r.age)
           /\ Len(ParasOf(Len(rows))) = 1
           /\ Len(ParasOf(Len(rows))[1].runs) = 3

\* tag-like markers outside the recognized list (bold, italic, paragraph,
\* unordered list, superscript, subscript, font span)
UnknownPairs == {<<Open(<<"u">>), Close(<<"u">>)>>, <<Open(<<"g">>), Close(<<"g">>)>>}

\* the unknown markers, and the unknown elements with their enclosed text
UnknownLiterals ==
    UNION {{pr[1], pr[2], pr[1] \o Letter \o pr[2]} : pr \in UnknownPairs}

\* C15: the catalog is closed: a tag-like substring that is not a recognized
\* tag, and the text it encloses, appear verbatim in the concatenated run text.
C15_ClosedCatalog ==
    tpc = "formatted" =>
        \A m \in UnknownLiterals :
            Occurrences(ptext, m) # {} => Occurrences(RunText(out), m) # {}

\* the catalog entries of the structural tags, paragraph and list
StructuralIndex ==
    {t \in TagIndex : startTags[t] \in {Open(<<"p">>), Open(<<"u", "l">>)}}

\* C17: when a structural tag ("<p>" or "<ul>") reaches add_formatting, the
\* text it encloses is present in the runs as an unstyled run.
C17_StructuralContentPlain ==
    tpc = "formatted" =>
        \A t \in StructuralIndex : \A b \in Occurrences(ptext, startTags[t]) :
            LET e == ClosingAfter(ptext, t, b)
                interior == Slice(ptext, b + Len(startTags[t]), e)
            IN  (e # -1 /\ interior # <<>> /\ NoStartTag(interior))
                => \E k \in 1..Len(out) :
                       /\ out[k].style = "None"
                       /\ Occurrences(out[k].text, interior) # {}

\* the catalog entries of the inline style tags, with the effect of each
InlineStyle(t) ==
    CASE startTags[t] = Open(<<"b">>) -> "bold"
      [] startTags[t] = Open(<<"i">>) -> "italic"
      [] startTags[t] = Open(<<"s", "u", "p">>) -> "superscript"
      [] startTags[t] = Open(<<"s", "u", "b">>) -> "subscript"
      [] startTags[t] = spanStart -> "DMUUnitLabeltypestyle"
      [] OTHER -> "structural"

InlineIndex == {t \in TagIndex : InlineStyle(t) # "structural"}

\* the opening markers in txt, as <<tag, offset>>
Openings(txt) ==
    {tb \in TagIndex \X (0..Len(txt)) : MatchAt(txt, startTags[tb[1]], tb[2])}

\* every opening marker in txt is an inline style tag's, is closed, and its
\* span ends before the next opening marker
WellFormedInline(txt) ==
    LET opens == Openings(txt)
    IN  /\ \A tb \in opens : tb[1] \in InlineIndex
        /\ \A t \in TagIndex \ InlineIndex : ~Contains(txt, endTags[t])
        /\ \A tb \in opens :
               LET e == ClosingAfter(txt, tb[1], tb[2])
               IN  /\ e # -1
                   /\ \A ub \in opens :
                          ub[2] > tb[2] => e + Len(endTags[tb[1]]) <= ub[2]

PlainIfAny(text) == IF text = <<>> THEN <<>> ELSE <<Run(text, "None")>>

\* the runs a left-to-right walk gives from offset pos on: the gap up to
\* the next span, the span's interior in its style, and so on; then the rest
RECURSIVE WalkRuns(_, _)
WalkRuns(txt, pos) ==
    LET ahead == {tb \in Openings(txt) : tb[2] >= pos}
    IN  IF ahead = {} THEN PlainIfAny(Slice(txt, pos, Len(txt)))
        ELSE LET tb == CHOOSE x \in ahead : \A y \in ahead : x[2] <= y[2]
                 e  == ClosingAfter(txt, tb[1], tb[2])
             IN  PlainIfAny(Slice(txt, pos, tb[2]))
                 \o <<Run(Slice(txt, tb[2] + Len(startTags[tb[1]]), e), InlineStyle(tb[1]))>>
                 \o WalkRuns(txt, e + Len(endTags[tb[1]]))

\* C18: for a text whose tags are only well-formed, non-nested inline style
\* spans, the runs follow the text in order: one run per span holding its
\* interior in the tag's style, one unstyled run per non-empty gap before,
\* between and after the spans, and no empty unstyled run.
C18_InlineSpans ==
    (tpc = "formatted" /\ ~NoStartTag(ptext) /\ WellFormedInline(ptext))
    => /\ out = WalkRuns(ptext, 0)
       /\ \A k \in 1..Len(out) : out[k].style = "None" => out[k].text # <<>>

C18_Witness ==
    /\ tpc = "formatted"
    /\ WellFormedInline(ptext)
    /\ ptext = Open(<<"b">>) \o Letter \o Close(<<"b">>) \o Letter
    /\ out = <<Run(Letter, "bold"), Run(Letter, "None")>>

\* how many runs a unit paragraph starts with: the label, the name, the age
HeadRunCount(r) ==
    1 + (IF Blank(r.name) THEN 0 ELSE 1) + (IF Blank(r.age) THEN 0 ELSE 1)

\* C19: outside list-only mode a unit row whose non-blank description splits
\* into n pieces gives exactly n paragraphs: the unit paragraph, in which the
\* em-dash run follows the label, name and age runs and is followed at once by
\* the runs of piece 1, and one 'DMUParagraph' paragraph per further piece, in
\* order, each formatted on its own.
C19_DescriptionParagraphs ==
    \A n \in StreamedRows :
        (UnitTag(rows[n]) /\ ~Blank(rows[n].description) /\ ~isLMU)
        => LET pieces == SplitDescription(rows[n].description)
               paras  == ParasOf(n)
               k      == HeadRunCount(rows[n]) + 1
           IN  /\ Len(paras) = Len(pieces)
               /\ Len(paras[1].runs) >= k
               /\ paras[1].runs[k] = Run(emDash, "None")
               /\ \A j \in 1..(k - 1) : paras[1].runs[j].text # emDash
               /\ SubSeq(paras[1].runs, k + 1, Len(paras[1].runs)) = FormattedRuns(pieces[1])
               /\ \A j \in 2..Len(pieces) :
                      /\ paras[j].style = DMUParagraph
                      /\ paras[j].runs = FormattedRuns(pieces[j])

\* C20: a heading row gives exactly one paragraph in the row's own style whose
\* runs are the formatted name, followed, if and only if the description is
\* populated (not null, not a '#' placeholder, not only spaces), by exactly one
\* 'DMUHeadnote' paragraph made of the whole description, formatted, unsplit.
C20_HeadingParagraphs ==
    \A n \in StreamedRows :
        HeadingTag(rows[n])
        => LET paras == ParasOf(n)
               r     == rows[n]
           IN  /\ Len(paras) = (IF Populated(r.description) THEN 2 ELSE 1)
               /\ paras[1].style = r.paragraphstyle
               /\ paras[1].runs = FormattedRuns(r.name)
               /\ Populated(r.description)
                  => /\ paras[2].style = DMUHeadnote
                     /\ paras[2].runs = FormattedRuns(r.description)

C20_Witness ==
    /\ Len(rows) = 3
    /\ HeadingTag(rows[2])
    /\ Occurrences(rows[2].description, BR) # {}
    /\ Len(ParasOf(2)) = 2
    /\ HeadingTag(rows[3])
    /\ rows[3].description = <<"#">>
    /\ Len(ParasOf(3)) = 1

\* the mapped values of a table row whose independent value is a key
MappedValues(row) == update_val_dict[Strip(row[1])]

\* C16: when the tool has gone through the table, in every stored row whose
\* independent value is a key of the mapping: without force-calculation a
\* dependent field that was null or empty holds the mapped value and one that
\* held a value holds it still; with force-calculation every dependent field
\* holds the mapped value.
C16_KeyValueUpdate ==
    kpc = "done" =>
        \A i \in 1..Len(given) :
            (Strip(given[i][1]) \in DOMAIN update_val_dict /\ i \notin failed)
            => \A n \in 2..Len(given[i]) :
                   table[i][n] =
                       IF forceCalc \/ given[i][n] \in {None, <<>>}
                       THEN MappedValues(given[i])[n - 1]
                       ELSE given[i][n]

\* C21: the document follows the order of the rows: every paragraph of an
\* earlier row stands before every paragraph of a later row; within a row the
\* heading paragraph stands before its headnote, and the unit paragraph before
\* its continuation paragraphs, which stand in the order of the pieces.
C21_DocumentOrder ==
    /\ \A k, l \in 1..Len(document) : k < l => document[k].row <= document[l].row
    /\ \A n \in StreamedRows :
           LET paras == ParasOf(n)
               r     == rows[n]
           IN  /\ (HeadingTag(r) /\ Len(paras) >= 1)
                  => /\ paras[1].style = r.paragraphstyle
                     /\ \A j \in 2..Len(paras) : paras[j].style = DMUHeadnote
               /\ (UnitTag(r) /\ Len(paras) >= 2)
                  => /\ paras[1].style # DMUParagraph
                     /\ paras[1].runs[1].style = "DMUUnitLabeltypestyle"
                     /\ \A j \in 2..Len(paras) :
                            /\ paras[j].style = DMUParagraph
                            /\ paras[j].runs = FormattedRuns(SplitDescription(r.description)[j])

C21_Witness ==
    /\ Len(rows) = 3
    /\ HeadingTag(rows[2])
    /\ Len(ParasOf(2)) = 2
    /\ UnitTag(rows[3])
    /\ Len(ParasOf(3)) = 2
    /\ Len(document) = 5
    /\ document[3].style = DMUHeadnote
    /\ document[5].style = DMUParagraph

\* the style tag of the row ends in '4' or '5'
WideStyle(r) == r.paragraphstyle[Len(r.paragraphstyle)] \in {"4", "5"}

\* the abbreviation the row itself holds, empty when it holds none
OwnAbbreviation(r) == IF Populated(AbbreviationOf(r)) THEN AbbreviationOf(r) ELSE <<>>

\* C23: in every unit paragraph the label run is the row's abbreviation
\* followed by exactly two tabs when the row's style tag ends in '4' or '5',
\* and by exactly one tab otherwise, whatever style the paragraph is given.
C23_LabelTabs ==
    \A n \in StreamedRows :
        UnitTag(rows[n])
        => LET unit == ParasOf(n)[1]
               r    == rows[n]
           IN  /\ Len(unit.runs) >= 1
               /\ unit.runs[1].style = "DMUUnitLabeltypestyle"
               /\ unit.runs[1].text =
                      OwnAbbreviation(r)
                      \o (IF WideStyle(r) THEN <<"\t", "\t">> ELSE <<"\t">>)

\* with created paragraphs made so far, every statement of stmts that adds a
\* run or sets a style acts on the paragraph created last
RECURSIVE LastTouched(_, _)
LastTouched(stmts, created) ==
    IF stmts = <<>> THEN TRUE
    ELSE IF Head(stmts).op = "add_paragraph" THEN LastTouched(Tail(stmts), created + 1)
    ELSE Head(stmts).target = created /\ LastTouched(Tail(stmts), created)

OnlyLastTouched(stmts) == LastTouched(stmts, 0)

\* C22: paragraphs are append-only and finished before the next begins: no
\* step removes or changes a paragraph already in the document; the step that
\* takes a row adds exactly what the row's statements make, and each of these
\* statements adds a run or sets the style only on the paragraph created last,
\* so a row's paragraphs are complete before the next row is read.
C22_AppendOnly ==
    [][/\ Len(document') >= Len(document)
       /\ SubSeq(document', 1, Len(document)) = document
       /\ RowTaken
          => LET stmts == RowStatements(rows'[Len(rows')], lastParaWasHeading,
                                        abbrv, useMapUnitForUnitLabl, isLMU)
             IN  /\ document' = document \o Execute(<<>>, stmts, Len(rows'))
                 /\ OnlyLastTouched(stmts)]_vars

C22_Witness ==
    /\ Len(rows) = 3
    /\ UnitTag(rows[2])
    /\ Len(ParasOf(2)) = 2
    /\ ParasOf(2)[2].runs # <<>>
    /\ HeadingTag(rows[3])
    /\ Len(ParasOf(3)) = 2
    /\ Len(document) = 5
    /\ pc = "streaming"

====
